---- MODULE Spec2Model ----
(***************************************************************************)
(* The farm dashboard (src/main.py): the reading collection, the login    *)
(* gate in front of the three read endpoints, the endpoints themselves     *)
(* (/api/sensors, /api/summary, /api/timeseries), and the user collection  *)
(* with /register, /login, /logout and the dashboard page.                 *)
(*                                                                         *)
(* Time is counted in whole hours.  A document of the reading collection   *)
(* is a record; a missing or null `location` is the value None.  The       *)
(* collection is a sequence in insertion order (the position stands for    *)
(* the document's _id).                                                    *)
(***************************************************************************)
EXTENDS Integers, Sequences, FiniteSets, TLC

\* ---------------------------------------------------------------- bounds

\* The collection holds at most MaxReadings documents.
MaxReadings == 3

\* The clock runs from hour 0 to hour MaxNow.
MaxNow == 1

\* ------------------------------------------------------ program constants

\* timedelta(hours=24) of the summary's statistics window.
StatsWindowHours == 24

\* request.args.get("hours", 24)
DefaultHours == 24

\* request.args.get("limit", 1000)
DefaultLimit == 1000

\* Python's None; also a field that a document lacks or holds as null.
None == "<None>"

\* {"$ifNull": ["$location", "__none__"]}
NoneSentinel == "__none__"

\* ------------------------------------------------------------ the universe

\* The strings of the model, in ascending order of their code points
\* ("" < "_" < "f" < "m" < "t"), which is the order of Python's sorted()
\* on str.
Lexicon == <<"", "__none__", "field-1", "moisture", "temp">>

Timestamps == {-24, -1, 0}

\* The documents ingestion may write.  moisture has readings at three
\* distinct hours and, at field-1, two readings of hour 0; it also comes
\* without a location and with the location "__none__"; temp is a second
\* sensor, and its location is the empty string.
Readings ==
  { [sensor |-> "moisture", location |-> "field-1",  value |-> 10, unit |-> "%", timestamp |-> -24],
    [sensor |-> "moisture", location |-> "field-1",  value |-> 20, unit |-> "%", timestamp |-> 0],
    [sensor |-> "moisture", location |-> "field-1",  value |-> 30, unit |-> "%", timestamp |-> 0],
    [sensor |-> "moisture", location |-> None,       value |-> 10, unit |-> "%", timestamp |-> -1],
    [sensor |-> "moisture", location |-> "__none__", value |-> 30, unit |-> "%", timestamp |-> 0],
    [sensor |-> "temp",     location |-> "",         value |-> 20, unit |-> "C", timestamp |-> 0] }

\* The request slots in which register() calls run side by side.
Slots == { 1, 2 }

\* A slot without a register() call in flight.
NoReg == [idle |-> TRUE]

\* The one registered user of the query specifications.
Alice == [_id |-> "u1", username |-> "alice", email |-> "alice@farm", password |-> "hash(secret1)"]

\* ------------------------------------------------------------------ state

VARIABLES
  store,      \* the reading collection, in insertion order
  now,        \* the wall clock, in hours
  users,      \* the user collection
  session,    \* the caller's session: the _user_id it carries, or None
  reg,        \* per request slot, the register() call in flight between its
              \* find_one and its insert_one, or NoReg
  pc,         \* "idle", or "summary" between the two queries of api_summary
  latest,     \* api_summary's local `latest` while pc = "summary"
  latestLen,  \* Len(store) when `latest` was read
  resp        \* the response the caller holds: that of the last request
              \* answered since the store or the clock last changed
              \* (op = "none" when there is none)

vars == <<store, now, users, session, reg, pc, latest, latestLen, resp>>

\* ---------------------------------------------------------------- helpers

\* Python: d.get(k, default) on request.args.
Get(args, k, default) == IF k \in DOMAIN args THEN args[k] ELSE default

\* Python truthiness of an optional string: None and "" are falsy.
Truthy(s) == s # None /\ s # ""

Rank(s) == CHOOSE i \in 1..Len(Lexicon) : Lexicon[i] = s

\* Python: a < b on str.
StrLess(a, b) == Rank(a) < Rank(b)

Range(f) == { f[x] : x \in DOMAIN f }

\* The permutations of 1..n, as sequences, for every length a collection
\* can have.
Perms ==
  [n \in 0..MaxReadings |->
     { p \in [1..n -> 1..n] : \A i, j \in 1..n : i # j => p[i] # p[j] }]

\* The orders a sort may put `docs` in, `before` being the pairs <<i, j>>
\* of positions whose documents the sort key orders strictly (docs[i]
\* first): every arrangement that respects them.  The order of documents
\* that compare equal is not specified by the store.
SortOrders(docs, before) ==
  { [i \in 1..Len(docs) |-> docs[p[i]]] :
      p \in { q \in Perms[Len(docs)] :
                \A i, j \in 1..Len(docs) : i < j => <<q[j], q[i]>> \notin before } }

\* Python: sorted(S) of a collection of distinct strings.
RECURSIVE SortedStrings(_)
SortedStrings(S) ==
  IF S = {} THEN <<>>
  ELSE LET m == CHOOSE x \in S : \A y \in S : ~StrLess(y, x)
       IN  <<m>> \o SortedStrings(S \ {m})

NoResp == [op |-> "none", status |-> 0]

\* -------------------------------------------------------------- login gate

\* load_user: the users lookup of the session's _user_id.  dbOk is whether
\* the lookup reaches the store; any exception is swallowed and gives None.
load_user(user_id, dbOk) ==
  IF dbOk /\ \E i \in 1..Len(users) : users[i]._id = user_id
  THEN user_id
  ELSE None

\* CurrentUser handing the gate an anonymous user object it takes for a
\* logged-in one.
CurrentUserAnonymous(dbOk) ==
  IF session = None THEN "anonymous" ELSE load_user(session, dbOk)

\* flask_login's current_user: no lookup at all when the session carries no
\* user id.
CurrentUser(dbOk) == IF session = None THEN None ELSE load_user(session, dbOk)

\* The store accesses the gate makes.
GateAccess == IF session = None THEN <<>> ELSE <<"users">>

\* @login_required: an anonymous caller is redirected to the login view.
Unauthorized(op, args) ==
  [op |-> op, args |-> args, status |-> 302, failed |-> FALSE,
   accessed |-> GateAccess]

\* ------------------------------------------------------------ environment

\* The read endpoints, and the endpoints behind @login_required.
ReadOps == { "sensors", "summary", "timeseries" }

GatedOps == ReadOps \cup { "dashboard", "logout" }

\* The caller sends a read request when it holds no response of a read
\* endpoint, or sends again the read request whose response it holds.
MaySend(op, args) ==
  /\ pc = "idle"
  /\ resp.op \notin ReadOps \/ (resp.op = op /\ resp.args = args)

\* ServiceError answering a failed query as a query that found nothing.
ServiceErrorAsEmpty(op, args, accessed) ==
  [op |-> op, args |-> args, status |-> 200, failed |-> TRUE,
   body |-> <<>>, accessed |-> accessed]

\* `except PyMongoError as e: return jsonify({"error": str(e)}), 500` of a
\* read endpoint, after the store accesses `accessed`.
ServiceError(op, args, accessed) ==
  [op |-> op, args |-> args, status |-> 500, failed |-> TRUE,
   body |-> [error |-> "PyMongoError"], accessed |-> accessed]

\* ReadOnly for a handler that consumes the oldest reading it reads.
ReadOnlyConsumes ==
  /\ store' = IF store = <<>> THEN store ELSE Tail(store)
  /\ users' = users

\* The read handlers call distinct, aggregate and find on the reading
\* collection and, through the login gate, find_one on the user collection:
\* none of them writes.
ReadOnly == UNCHANGED <<store, users>>

\* What the store does to a request: the gate's user lookup fails, or the
\* handler's first or second query raises PyMongoError, or nothing fails.
StoreOutcomes == { "gate_fails", "q1_fails", "q2_fails", "ok" }

\* Ingestion (outside the program) writes one more reading.
Write(r) ==
  /\ Len(store) < MaxReadings
  /\ store' = Append(store, r)
  /\ UNCHANGED <<now, users, session, reg, pc, latest, latestLen>>

\* A reading is written, and the caller drops the response it holds.
Ingest(r) == Write(r) /\ resp' = NoResp

\* A reading is written while the caller keeps the response it holds.
IngestUnseen(r) == Write(r) /\ UNCHANGED resp

\* An hour passes.
Tick ==
  /\ now < MaxNow
  /\ now' = now + 1
  /\ resp' = NoResp
  /\ UNCHANGED <<store, users, session, reg, pc, latest, latestLen>>

\* ------------------------------------------------------------ /api/sensors

\* col.distinct(field): the distinct values of the field; a document that
\* lacks the field or holds null contributes None, which api_sensors drops.
Distinct(docs, field) == { docs[i][field] : i \in 1..Len(docs) }

\* SensorsBody with `if l is not None` as the filter.
SensorsBodyKeepEmpty(docs) ==
  [sensors   |-> SortedStrings(Distinct(docs, "sensor")),
   locations |-> SortedStrings({ l \in Distinct(docs, "location") : l # None })]

SensorsBody(docs) ==
  [sensors   |-> SortedStrings(Distinct(docs, "sensor")),
   locations |-> SortedStrings({ l \in Distinct(docs, "location") : Truthy(l) })]

ApiSensors ==
  /\ MaySend("sensors", <<>>)
  /\ \E outcome \in StoreOutcomes :
       resp' =
         IF CurrentUser(outcome # "gate_fails") = None THEN Unauthorized("sensors", <<>>)
         ELSE IF outcome = "q1_fails" THEN
           ServiceError("sensors", <<>>, GateAccess \o <<"readings">>)
         ELSE IF outcome = "q2_fails" THEN
           ServiceError("sensors", <<>>, GateAccess \o <<"readings", "readings">>)
         ELSE
           [op |-> "sensors", args |-> <<>>, status |-> 200, failed |-> FALSE,
            body |-> SensorsBody(store),
            accessed |-> GateAccess \o <<"readings", "readings">>]
  /\ ReadOnly
  /\ UNCHANGED <<now, session, reg, pc, latest, latestLen>>

\* ------------------------------------------------------------ /api/summary

\* The store's order of optional strings in a sort: null and missing come
\* before every string, strings compare by code point.
BsonLess(a, b) == IF a = None THEN b # None ELSE b # None /\ StrLess(a, b)

\* {"$sort": {"sensor": 1, "location": 1, "timestamp": -1}}
SummaryLess(a, b) ==
  \/ StrLess(a.sensor, b.sensor)
  \/ /\ a.sensor = b.sensor
     /\ \/ BsonLess(a.location, b.location)
        \/ a.location = b.location /\ a.timestamp > b.timestamp

\* The streams the $sort stage may hand to $group.
SummarySorted(docs) ==
  SortOrders(docs, { ij \in (1..Len(docs)) \X (1..Len(docs)) :
                       SummaryLess(docs[ij[1]], docs[ij[2]]) })

\* The _id of the $group stage.
GroupKey(d) ==
  [sensor   |-> d.sensor,
   location |-> IF d.location = None THEN NoneSentinel ELSE d.location]

\* json_util.dumps of a document: a datetime becomes {"$date": ...}.
ExtJson(d) == [d EXCEPT !.timestamp = ("$date" :> d.timestamp)]

\* GroupFirst over the documents that carry a location only.
GroupFirstLocated(sorted) ==
  LET located == SelectSeq(sorted, LAMBDA d : d.location # None)
  IN  [k \in { GroupKey(located[i]) : i \in 1..Len(located) } |->
         LET first == CHOOSE i \in 1..Len(located) :
                        /\ GroupKey(located[i]) = k
                        /\ \A j \in 1..(i - 1) : GroupKey(located[j]) # k
         IN  ExtJson(located[first])]

\* {"$group": {"_id": ..., "latest": {"$first": "$$ROOT"}}} over the sorted
\* stream, then $replaceRoot and $project: per group, the first document of
\* the stream that belongs to it.  The list the pipeline returns has no
\* specified order; its entries are indexed here by the group each came
\* from.
GroupFirst(sorted) ==
  [k \in { GroupKey(sorted[i]) : i \in 1..Len(sorted) } |->
     LET first == CHOOSE i \in 1..Len(sorted) :
                    /\ GroupKey(sorted[i]) = k
                    /\ \A j \in 1..(i - 1) : GroupKey(sorted[j]) # k
     IN  ExtJson(sorted[first])]

RECURSIVE SumValues(_)
SumValues(docs) ==
  IF docs = <<>> THEN 0 ELSE Head(docs).value + SumValues(Tail(docs))

\* The $min accumulator.
RECURSIVE MinValue(_)
MinValue(docs) ==
  IF Len(docs) = 1 THEN docs[1].value
  ELSE LET m == MinValue(Tail(docs))
       IN  IF docs[1].value < m THEN docs[1].value ELSE m

\* The $max accumulator.
RECURSIVE MaxValue(_)
MaxValue(docs) ==
  IF Len(docs) = 1 THEN docs[1].value
  ELSE LET m == MaxValue(Tail(docs))
       IN  IF docs[1].value > m THEN docs[1].value ELSE m

RECURSIVE Gcd(_, _)
Gcd(a, b) == IF b = 0 THEN a ELSE Gcd(b, a % b)

\* The $avg accumulator: sum / count, kept as a fraction in lowest terms
\* (the values of the model are positive).
Avg(docs) ==
  LET s == SumValues(docs)
      n == Len(docs)
      g == Gcd(s, n)
  IN  [num |-> s \div g, den |-> n \div g]

\* InWindow with $gt in place of $gte.
InWindowStrict(d, since) == d.timestamp > since

\* {"$match": {"timestamp": {"$gte": since}}}
InWindow(d, since) == d.timestamp >= since

\* Stats grouping by sensor and location.
StatsPerLocation(docs, since) ==
  LET matched == SelectSeq(docs, LAMBDA d : InWindow(d, since))
  IN  [k \in { GroupKey(matched[i]) : i \in 1..Len(matched) } |->
         LET group == SelectSeq(matched, LAMBDA d : GroupKey(d) = k)
         IN  [sensor |-> k.sensor,
              count  |-> Len(group),
              min    |-> MinValue(group),
              max    |-> MaxValue(group),
              avg    |-> Avg(group)]]

\* The statistics pipeline: $match, $group by sensor, $project.  As for
\* `latest`, the entries are indexed by their group.
Stats(docs, since) ==
  LET matched == SelectSeq(docs, LAMBDA d : InWindow(d, since))
  IN  [k \in { [sensor |-> matched[i].sensor] : i \in 1..Len(matched) } |->
         LET group == SelectSeq(matched, LAMBDA d : d.sensor = k.sensor)
         IN  [sensor |-> k.sensor,
              count  |-> Len(group),
              min    |-> MinValue(group),
              max    |-> MaxValue(group),
              avg    |-> Avg(group)]]

\* api_summary up to and including its first query.
ApiSummaryLatest ==
  /\ MaySend("summary", <<>>)
  /\ \E outcome \in StoreOutcomes \ { "q2_fails" } :
       IF CurrentUser(outcome # "gate_fails") = None THEN
         /\ resp' = Unauthorized("summary", <<>>)
         /\ UNCHANGED <<pc, latest, latestLen>>
       ELSE IF outcome = "q1_fails" THEN
         /\ resp' = ServiceError("summary", <<>>, GateAccess \o <<"readings">>)
         /\ UNCHANGED <<pc, latest, latestLen>>
       ELSE
         /\ \E sorted \in SummarySorted(store) :
              latest' = GroupFirst(sorted)
         /\ latestLen' = Len(store)
         /\ pc' = "summary"
         /\ UNCHANGED resp
  /\ ReadOnly
  /\ UNCHANGED <<now, session, reg>>

\* StatsFailed answering with the view the first query computed.
StatsFailedPartial(view, n) ==
  [op |-> "summary", args |-> <<>>, status |-> 200, failed |-> TRUE,
   body |-> [latest |-> view, stats_24h |-> <<>>], latestLen |-> n,
   accessed |-> <<"users", "readings", "readings">>]

\* The second query raises: `except PyMongoError` answers, and `latest`, the
\* view of n documents the first query computed, is dropped.
StatsFailed(view, n) ==
  ServiceError("summary", <<>>, <<"users", "readings", "readings">>)
    @@ [latestLen |-> n]

\* api_summary from `since = ...` to its return.
ApiSummaryStats ==
  /\ pc = "summary"
  /\ \E outcome \in { "q2_fails", "ok" } :
       resp' =
         IF outcome = "q2_fails" THEN
           StatsFailed(latest, latestLen)
         ELSE
           [op |-> "summary", args |-> <<>>, status |-> 200, failed |-> FALSE,
            body |-> [latest   |-> latest,
                      stats_24h |-> Stats(store, now - StatsWindowHours)],
            latestLen |-> latestLen, statsLen |-> Len(store), now |-> now,
            accessed |-> <<"users", "readings", "readings">>]
  /\ pc' = "idle"
  /\ latest' = <<>>
  /\ latestLen' = 0
  /\ ReadOnly
  /\ UNCHANGED <<now, session, reg>>

\* col.aggregate(stats_pipeline) is sent to a server the driver has selected
\* and the server never replies.  get_db gives MongoClient the timeout of
\* server selection only (serverSelectionTimeoutMS=5000) and none for the
\* reply to an operation (socketTimeoutMS defaults to no timeout), so the
\* handler waits in the call: nothing moves pc on from "stalled".  (A
\* server that cannot be selected is the outcome "q2_fails" of
\* ApiSummaryStats: ServerSelectionTimeoutError is a PyMongoError.)
StatsQueryStalls ==
  /\ pc = "summary"
  /\ pc' = "stalled"
  /\ UNCHANGED <<store, now, users, session, reg, latest, latestLen, resp>>

\* --------------------------------------------------------- /api/timeseries

\* The query strings a caller may send.  A key that is absent from the
\* function is a parameter the caller did not send.
SeriesArgs ==
  { <<>>, "sensor" :> "" }
  \cup { ("sensor" :> "moisture") @@ l @@ h @@ n :
           l \in { <<>>, "location" :> "field-1" },
           h \in { <<>>, "hours" :> "1" },
           n \in { <<>>, "limit" :> "2" } }
  \cup { ("sensor" :> "moisture") @@ ("location" :> ""),
         ("sensor" :> "moisture") @@ ("hours" :> "soon"),
         ("sensor" :> "temp") @@ ("limit" :> "1.5") }

\* The strings int() accepts, among those of the model.
IntLiterals == { "1", "2" }

\* Python: int(s) of a string int() accepts.
ParseInt(s) == CASE s = "1" -> 1 [] s = "2" -> 2

\* int(request.args.get(k, default)) raises ValueError.
IntArgFails(args, k) == k \in DOMAIN args /\ args[k] \notin IntLiterals

\* int(request.args.get(k, default))
IntArg(args, k, default) ==
  IF k \in DOMAIN args THEN ParseInt(args[k]) ELSE default

\* MissingSensor as `if sensor is None:`.
MissingSensorNoneOnly(args) == Get(args, "sensor", None) = None

\* `if not sensor:` of the `sensor` query parameter.
MissingSensor(args) == ~Truthy(Get(args, "sensor", None))

\* Matches without the location in the query.
MatchesAnyLocation(d, sensor, since, location) ==
  d.sensor = sensor /\ d.timestamp >= since

\* Matches with the window's bound excluded ($gt).
MatchesAfter(d, sensor, since, location) ==
  /\ d.sensor = sensor
  /\ d.timestamp > since
  /\ Truthy(location) => d.location = location

\* Matches putting the location into the query whatever it is: a request
\* without one then asks for the readings that have none.
MatchesLocationAlways(d, sensor, since, location) ==
  /\ d.sensor = sensor
  /\ d.timestamp >= since
  /\ d.location = location

\* The filter of col.find(query, ...).
Matches(d, sensor, since, location) ==
  /\ d.sensor = sensor
  /\ d.timestamp >= since
  /\ Truthy(location) => d.location = location

\* The projection {"_id": 0, "sensor": 1, "value": 1, "unit": 1,
\* "timestamp": 1, "location": 1}.
Project(d) ==
  [sensor |-> d.sensor, value |-> d.value, unit |-> d.unit,
   timestamp |-> d.timestamp, location |-> d.location]

\* .sort("timestamp", DESCENDING)
SeriesLess(a, b) == a.timestamp > b.timestamp

\* Limit keeping the last documents of the cursor instead of the first.
LimitTail(docs, n) ==
  IF n >= Len(docs) THEN docs ELSE SubSeq(docs, Len(docs) - n + 1, Len(docs))

\* cursor.limit(n): 0 is no limit, and a negative n limits to -n.
Limit(docs, n) ==
  LET m == IF n < 0 THEN 0 - n ELSE n
  IN  IF m = 0 \/ m >= Len(docs) THEN docs ELSE SubSeq(docs, 1, m)

\* SortedByTimestamp left out: the cursor's order.
CursorOrder(docs) == docs

\* Python: sorted(docs, key=lambda d: d.get("timestamp")), which is stable:
\* the first of the documents with the least timestamp comes first.
RECURSIVE SortedByTimestamp(_)
SortedByTimestamp(docs) ==
  IF docs = <<>> THEN <<>>
  ELSE LET i == CHOOSE i \in 1..Len(docs) :
                  /\ \A j \in 1..Len(docs) : docs[i].timestamp <= docs[j].timestamp
                  /\ \A j \in 1..(i - 1) : docs[j].timestamp # docs[i].timestamp
       IN  <<docs[i]>> \o
           SortedByTimestamp(SubSeq(docs, 1, i - 1) \o SubSeq(docs, i + 1, Len(docs)))

\* The documents of the cursor, in one of the orders the store may give.
Cursors(docs, sensor, since, location, limit) ==
  LET found == SelectSeq(docs, LAMBDA d : Matches(d, sensor, since, location))
      projected == [i \in 1..Len(found) |-> Project(found[i])]
      before == { ij \in (1..Len(found)) \X (1..Len(found)) :
                    SeriesLess(found[ij[1]], found[ij[2]]) }
  IN  { Limit(sorted, limit) : sorted \in SortOrders(projected, before) }

SeriesBody(docs_sorted) == [i \in 1..Len(docs_sorted) |-> ExtJson(docs_sorted[i])]

\* ApiTimeseries falling back to the default for a parameter int() rejects.
ApiTimeseriesDefaulting(args) ==
  /\ MaySend("timeseries", args)
  /\ \E outcome \in StoreOutcomes \ { "q2_fails" } :
       IF CurrentUser(outcome # "gate_fails") = None THEN
         resp' = Unauthorized("timeseries", args)
       ELSE IF MissingSensor(args) THEN
         resp' = [op |-> "timeseries", args |-> args, status |-> 400,
                  failed |-> FALSE,
                  body |-> [error |-> "Missing required parameter: sensor"],
                  accessed |-> GateAccess]
       ELSE IF outcome = "q1_fails" THEN
         resp' = ServiceError("timeseries", args, GateAccess \o <<"readings">>)
       ELSE
         LET sensor   == args["sensor"]
             hours    == IF IntArgFails(args, "hours") THEN DefaultHours
                         ELSE IntArg(args, "hours", DefaultHours)
             limit    == IF IntArgFails(args, "limit") THEN DefaultLimit
                         ELSE IntArg(args, "limit", DefaultLimit)
             location == Get(args, "location", None)
             since    == now - hours
         IN  \E docs \in Cursors(store, sensor, since, location, limit) :
               resp' = [op |-> "timeseries", args |-> args, status |-> 200,
                        failed |-> FALSE,
                        body |-> SeriesBody(SortedByTimestamp(docs)),
                        now |-> now,
                        accessed |-> GateAccess \o <<"readings">>]
  /\ ReadOnly
  /\ UNCHANGED <<now, session, reg, pc, latest, latestLen>>

ApiTimeseries(args) ==
  /\ MaySend("timeseries", args)
  /\ \E outcome \in StoreOutcomes \ { "q2_fails" } :
       IF CurrentUser(outcome # "gate_fails") = None THEN
         resp' = Unauthorized("timeseries", args)
       ELSE IF MissingSensor(args) THEN
         \* 400, "Missing required parameter: sensor"
         resp' = [op |-> "timeseries", args |-> args, status |-> 400,
                  failed |-> FALSE,
                  body |-> [error |-> "Missing required parameter: sensor"],
                  accessed |-> GateAccess]
       ELSE IF IntArgFails(args, "hours") \/ IntArgFails(args, "limit") THEN
         \* ValueError outside the try block: the framework answers 500
         resp' = [op |-> "timeseries", args |-> args, status |-> 500,
                  failed |-> FALSE,
                  body |-> [html |-> "Internal Server Error"],
                  accessed |-> GateAccess]
       ELSE IF outcome = "q1_fails" THEN
         resp' = ServiceError("timeseries", args, GateAccess \o <<"readings">>)
       ELSE
         LET sensor   == args["sensor"]
             hours    == IntArg(args, "hours", DefaultHours)
             limit    == IntArg(args, "limit", DefaultLimit)
             location == Get(args, "location", None)
             since    == now - hours
         IN  \E docs \in Cursors(store, sensor, since, location, limit) :
               resp' = [op |-> "timeseries", args |-> args, status |-> 200,
                        failed |-> FALSE,
                        body |-> SeriesBody(SortedByTimestamp(docs)),
                        now |-> now,
                        accessed |-> GateAccess \o <<"readings">>]
  /\ ReadOnly
  /\ UNCHANGED <<now, session, reg, pc, latest, latestLen>>

\* ------------------------------------------------- /register, /login, ...

\* The user collection holds at most MaxUsers documents.
MaxUsers == 3

\* The _id the store gives to the n-th document inserted into `users`.
UserIds == <<"u1", "u2", "u3", "u4", "u5">>

\* Python: s.strip() on the strings of the forms.
Strip(s) ==
  CASE s = " bob " -> "bob"
    [] s = "  "    -> ""
    [] OTHER       -> s

\* Python: len(s) on the passwords of the forms.
StrLen(s) ==
  CASE s = ""        -> 0
    [] s = "short"   -> 5
    [] s = "secret1" -> 7
    [] s = "secret2" -> 7

\* bcrypt.hashpw(password, salt), up to the salt.
Hash(password) ==
  CASE password = "secret1" -> "hash(secret1)"
    [] password = "secret2" -> "hash(secret2)"
    [] OTHER                -> "hash(other)"

\* checkpw comparing with the hash as long as the password is long enough.
checkpwAny(password, hashed) == StrLen(password) >= 6

\* bcrypt.checkpw(password, hashed)
checkpw(password, hashed) == Hash(password) = hashed

\* The JSON bodies a caller may post to /register: two new users (one with
\* blanks around the name, one whose email is the bare word that is the
\* other's username), a taken username, a taken email, a blank username
\* and a password of five characters.
RegisterForms ==
  { [username |-> " bob ", email |-> "bob@farm",   password |-> "secret2"],
    [username |-> "eve",   email |-> "bob",        password |-> "secret1"],
    [username |-> "alice", email |-> "al@farm",    password |-> "secret2"],
    [username |-> "dave",  email |-> "alice@farm", password |-> "secret2"],
    [username |-> "  ",    email |-> "dave@farm",  password |-> "secret2"],
    [username |-> "dave",  email |-> "dave@farm",  password |-> "short"] }

\* The JSON bodies a caller may post to /login.
LoginForms ==
  { [username |-> "alice",      password |-> "secret1"],
    [username |-> "alice@farm", password |-> "secret1"],
    [username |-> "alice",      password |-> "secret2"],
    [username |-> " bob ",      password |-> "secret2"],
    [username |-> "dave",       password |-> "secret1"],
    [username |-> "  ",         password |-> "secret1"] }

\* A response of /register, /login, /logout or the dashboard.
AuthResp(op, args, status, body, accessed) ==
  [op |-> op, args |-> args, status |-> status, body |-> body,
   accessed |-> accessed]

\* FindUsers with the username alone in the filter.
FindUsersByName(username, email) ==
  { i \in 1..Len(users) : users[i].username = username }

\* users_col.find_one({'$or': [{'username': username}, {'email': email}]}):
\* the documents the filter matches.
FindUsers(username, email) ==
  { i \in 1..Len(users) : users[i].username = username \/ users[i].email = email }

\* A register() call is in flight in the slot.
Pending(slot) == "form" \in DOMAIN reg[slot]

\* register() on POST, up to and including its find_one.  The second
\* outcome is the find_one raising PyMongoError.
RegisterCheck(slot, form) ==
  /\ ~Pending(slot)
  /\ \E outcome \in { "ok", "q1_fails" } :
       LET username == Strip(form.username)
           email    == Strip(form.email)
           password == form.password
       IN  IF ~Truthy(username) \/ ~Truthy(email) \/ ~Truthy(password) THEN
             /\ resp' = AuthResp("register", form, 400,
                                 [error |-> "All fields are required"], <<>>)
             /\ UNCHANGED reg
           ELSE IF StrLen(password) < 6 THEN
             /\ resp' = AuthResp("register", form, 400,
                                 [error |-> "Password must be at least 6 characters"], <<>>)
             /\ UNCHANGED reg
           ELSE IF outcome = "q1_fails" THEN
             /\ resp' = AuthResp("register", form, 500,
                                 [error |-> "Database error occurred"], <<"users">>)
             /\ UNCHANGED reg
           ELSE IF FindUsers(username, email) # {} THEN
             /\ resp' = AuthResp("register", form, 400,
                                 [error |-> "Username or email already exists"], <<"users">>)
             /\ UNCHANGED reg
           ELSE
             /\ reg' = [reg EXCEPT ![slot] =
                          [form |-> form, username |-> username, email |-> email]]
             /\ UNCHANGED resp
  /\ UNCHANGED <<store, now, users, session, pc, latest, latestLen>>

\* register() from bcrypt.hashpw to its return.  The second outcome is the
\* insert_one raising PyMongoError.
RegisterInsert(slot) ==
  /\ Pending(slot)
  /\ Len(users) < MaxUsers
  /\ \E outcome \in { "ok", "q2_fails" } :
       IF outcome = "q2_fails" THEN
         /\ resp' = AuthResp("register", reg[slot].form, 500,
                             [error |-> "Database error occurred"],
                             <<"users", "users">>)
         /\ UNCHANGED <<users, session>>
       ELSE
         LET user_data == [_id      |-> UserIds[Len(users) + 1],
                           username |-> reg[slot].username,
                           email    |-> reg[slot].email,
                           password |-> Hash(reg[slot].form.password)]
         IN  /\ users' = Append(users, user_data)
             \* login_user(user)
             /\ session' = user_data._id
             /\ resp' = AuthResp("register", reg[slot].form, 200,
                                 [success |-> TRUE, redirect |-> "dashboard",
                                  user |-> user_data._id],
                                 <<"users", "users">>)
  /\ reg' = [reg EXCEPT ![slot] = NoReg]
  /\ UNCHANGED <<store, now, pc, latest, latestLen>>

\* login() on POST.  find_one returns one of the documents the filter
\* matches, or None when there is none.
Login(form) ==
  /\ pc = "idle"
  /\ \E outcome \in { "ok", "q1_fails" } :
       LET username == Strip(form.username)
           password == form.password
           found    == FindUsers(username, username)
       IN  IF ~Truthy(username) \/ ~Truthy(password) THEN
             /\ resp' = AuthResp("login", form, 400,
                                 [error |-> "Username and password are required"], <<>>)
             /\ UNCHANGED session
           ELSE IF outcome = "q1_fails" THEN
             /\ resp' = AuthResp("login", form, 500,
                                 [error |-> "Database error occurred"], <<"users">>)
             /\ UNCHANGED session
           ELSE
             \E i \in IF found = {} THEN { 0 } ELSE found :
               IF i # 0 /\ checkpw(password, users[i].password) THEN
                 \* login_user(user, remember=True)
                 /\ session' = users[i]._id
                 /\ resp' = AuthResp("login", form, 200,
                                     [success |-> TRUE, redirect |-> "dashboard",
                                      user |-> users[i]._id],
                                     <<"users">>)
               ELSE
                 /\ resp' = AuthResp("login", form, 401,
                                     [error |-> "Invalid username or password"],
                                     <<"users">>)
                 /\ UNCHANGED session
  /\ UNCHANGED <<store, now, users, reg, pc, latest, latestLen>>

\* logout(), behind @login_required: logout_user() and the redirect to the
\* login view.
Logout ==
  /\ pc = "idle"
  /\ \E dbOk \in BOOLEAN :
       IF CurrentUser(dbOk) = None THEN
         /\ resp' = Unauthorized("logout", <<>>)
         /\ UNCHANGED session
       ELSE
         /\ session' = None
         /\ resp' = AuthResp("logout", <<>>, 302, [redirect |-> "login"], GateAccess)
  /\ UNCHANGED <<store, now, users, reg, pc, latest, latestLen>>

\* dashboard(), behind @login_required: the page, rendered for the user.
Dashboard ==
  /\ pc = "idle"
  /\ \E dbOk \in BOOLEAN :
       resp' = IF CurrentUser(dbOk) = None
               THEN Unauthorized("dashboard", <<>>)
               ELSE AuthResp("dashboard", <<>>, 200,
                             [html |-> "INDEX_HTML", user |-> CurrentUser(dbOk)],
                             GateAccess)
  /\ UNCHANGED <<store, now, users, session, reg, pc, latest, latestLen>>

\* ------------------------------------------------------------------- specs

Init ==
  /\ store = <<>>
  /\ now = 0
  /\ users = <<Alice>>
  /\ session = "u1"
  /\ reg = [slot \in Slots |-> NoReg]
  /\ pc = "idle"
  /\ latest = <<>>
  /\ latestLen = 0
  /\ resp = NoResp

Next ==
  \/ \E r \in Readings : Ingest(r)
  \/ Tick
  \/ ApiSensors
  \/ ApiSummaryLatest
  \/ ApiSummaryStats
  \/ \E args \in SeriesArgs : ApiTimeseries(args)

Spec == Init /\ [][Next]_vars

\* The readings ingestion writes and the series requests the caller sends
\* while accounts are registered and sessions opened and closed.
AuthReadings == { r \in Readings : r.location = None }

AuthSeriesArgs == { <<>>, "sensor" :> "moisture" }

NextAuth ==
  \/ \E slot \in Slots : \E form \in RegisterForms : RegisterCheck(slot, form)
  \/ \E slot \in Slots : RegisterInsert(slot)
  \/ \E form \in LoginForms : Login(form)
  \/ Logout
  \/ Dashboard
  \/ \E r \in AuthReadings : Ingest(r)
  \/ ApiSensors
  \/ ApiSummaryLatest
  \/ ApiSummaryStats
  \/ \E args \in AuthSeriesArgs : ApiTimeseries(args)

SpecAuth == Init /\ [][NextAuth]_vars

\* The summary call over a store that may answer, fail or keep silent.  The
\* handler's thread is scheduled: once its query can return, it does.
NextLive ==
  \/ \E r \in Readings : Ingest(r)
  \/ Tick
  \/ ApiSummaryLatest
  \/ ApiSummaryStats
  \/ StatsQueryStalls

SpecLive == Init /\ [][NextLive]_vars /\ WF_vars(ApiSummaryStats)

\* Summary calls in succession, the caller comparing each response with the
\* one before it, while ingestion goes on.
NextHistory ==
  \/ \E r \in Readings : IngestUnseen(r)
  \/ ApiSummaryLatest
  \/ ApiSummaryStats

SpecHistory == Init /\ [][NextHistory]_vars

\* ------------------------------------------------------------------ claims

Summary200 == resp.op = "summary" /\ resp.status = 200

\* The collection as the first query of the answered summary call read it.
LatestDocs == SubSeq(store, 1, resp.latestLen)

\* The entries of a view (a function from entry index to entry) that are
\* of sensor s and location l.
EntriesOf(view, s, l) ==
  { k \in DOMAIN view : view[k].sensor = s /\ view[k].location = l }

\* C1: in every successful summary response, `latest` holds exactly one
\* entry for every (sensor, location) pair of the collection and none for
\* any other pair, and the entry's timestamp is the greatest timestamp of
\* the pair's readings.
C1_LatestOnePerPair ==
  Summary200 =>
    LET docs == LatestDocs
        view == resp.body.latest
        Of(s, l) == { i \in 1..Len(docs) : docs[i].sensor = s /\ docs[i].location = l }
    IN  /\ \A i \in 1..Len(docs) :
              LET s == docs[i].sensor
                  l == docs[i].location
                  es == EntriesOf(view, s, l)
              IN  /\ Cardinality(es) = 1
                  /\ \A k \in es : \A j \in Of(s, l) :
                        view[k].timestamp["$date"] >= docs[j].timestamp
        /\ \A k \in DOMAIN view :
              \E i \in 1..Len(docs) :
                /\ docs[i].sensor = view[k].sensor
                /\ docs[i].location = view[k].location
                /\ docs[i].timestamp = view[k].timestamp["$date"]

RECURSIVE SumOver(_, _)
SumOver(docs, I) ==
  IF I = {} THEN 0
  ELSE LET i == CHOOSE i \in I : TRUE
       IN  docs[i].value + SumOver(docs, I \ {i})

\* The readings of sensor s that are at most 24 hours old at the instant the
\* answered summary call took.
Recent(s) ==
  { i \in 1..Len(store) : store[i].sensor = s /\ store[i].timestamp >= resp.now - 24 }

\* C2: every entry of `stats_24h` gives the count, the least, the greatest
\* and the mean value of exactly the readings of its sensor, at any
\* location, that are at most 24 hours old.
C2_StatsOverWindow ==
  Summary200 =>
    \A k \in DOMAIN resp.body.stats_24h :
      LET e == resp.body.stats_24h[k]
          W == Recent(e.sensor)
      IN  /\ e.count = Cardinality(W)
          /\ \E i \in W : store[i].value = e.min
          /\ \A i \in W : e.min <= store[i].value
          /\ \E i \in W : store[i].value = e.max
          /\ \A i \in W : e.max >= store[i].value
          /\ e.avg.den > 0
          /\ e.avg.num * Cardinality(W) = e.avg.den * SumOver(store, W)

\* C2: a sensor with a reading of an hour ago and one of 25 hours ago is
\* reported with count 1.
C2_Witness ==
  /\ Summary200
  /\ \E k \in DOMAIN resp.body.stats_24h :
       LET e == resp.body.stats_24h[k]
       IN  /\ e.count = 1
           /\ \E i, j \in 1..Len(store) :
                /\ store[i].sensor = e.sensor /\ store[i].timestamp = resp.now - 1
                /\ store[j].sensor = e.sensor /\ store[j].timestamp = resp.now - 25

Series200 == resp.op = "timeseries" /\ resp.status = 200

ReqHours == IntArg(resp.args, "hours", DefaultHours)

ReqLimit == IntArg(resp.args, "limit", DefaultLimit)

\* The request names a location to filter by.
FiltersLocation == "location" \in DOMAIN resp.args /\ resp.args["location"] # ""

\* The readings the answered series request asks for.
Eligible ==
  { i \in 1..Len(store) :
      /\ store[i].sensor = resp.args["sensor"]
      /\ store[i].timestamp >= resp.now - ReqHours
      /\ FiltersLocation => store[i].location = resp.args["location"] }

\* A reading as an entry of the series response.
Entry(d) ==
  [sensor |-> d.sensor, value |-> d.value, unit |-> d.unit,
   timestamp |-> ("$date" :> d.timestamp), location |-> d.location]

\* The response's entries are the readings S, each once.
Returns(S) ==
  /\ Len(resp.body) = Cardinality(S)
  /\ \E f \in [1..Len(resp.body) -> S] :
       /\ \A i, j \in 1..Len(resp.body) : i # j => f[i] # f[j]
       /\ \A j \in 1..Len(resp.body) : resp.body[j] = Entry(store[f[j]])

\* C3: a successful series response holds all the requested readings when
\* they are at most `limit`, and otherwise `limit` of them, none of which is
\* older than a requested reading that was left out.
C3_MostRecentLimit ==
  Series200 =>
    \E S \in SUBSET Eligible :
      /\ Cardinality(S) =
           IF Cardinality(Eligible) > ReqLimit THEN ReqLimit ELSE Cardinality(Eligible)
      /\ Returns(S)
      /\ \A i \in Eligible \ S : \A j \in S : store[i].timestamp <= store[j].timestamp

\* C3: limit = 2 with requested readings at three hours t1 < t2 < t3
\* answers [t2, t3].
C3_Witness ==
  /\ Series200
  /\ ReqLimit = 2
  /\ Len(resp.body) = 2
  /\ resp.body[1].timestamp["$date"] < resp.body[2].timestamp["$date"]
  /\ \E i \in Eligible : store[i].timestamp < resp.body[1].timestamp["$date"]

\* The answered series request lacks `sensor` or sends it empty.
NoSensorSent == "sensor" \notin DOMAIN resp.args \/ resp.args["sensor"] = ""

\* C4 as stated: a series request without a sensor that the login gate
\* lets through is answered by the validation error, and no store access is
\* made for it.
C4_NoStoreAccess ==
  (resp.op = "timeseries" /\ NoSensorSent /\ resp.status # 302) =>
    (resp.status = 400 /\ resp.accessed = <<>>)

\* C4, amended: a series request without a sensor never reads the reading
\* collection; it is answered by the validation error (400) after the login
\* gate's lookup of the session's user in the user collection, its only
\* store access, or by the gate's redirect when that lookup fails.  No other
\* series request is answered 400.
C4_NoReadingAccess ==
  resp.op = "timeseries" =>
    /\ NoSensorSent =>
         /\ resp.status \in { 302, 400 }
         /\ resp.accessed = <<"users">>
    /\ resp.status = 400 => NoSensorSent

\* C4: the validation error for an empty `sensor`, over a collection that
\* holds readings.
C4_Witness ==
  /\ resp.op = "timeseries"
  /\ resp.status = 400
  /\ "sensor" \in DOMAIN resp.args
  /\ store # <<>>

\* C5 as stated: a series response to a request that sends a location holds
\* only readings of that location.
C5_LocationFilterAnyValue ==
  (Series200 /\ "location" \in DOMAIN resp.args) =>
    \A j \in 1..Len(resp.body) : resp.body[j].location = resp.args["location"]

\* C5, amended: a series response to a request that sends a non-empty
\* location holds only readings of that location (an empty location
\* parameter is no filter).
C5_LocationFilter ==
  (Series200 /\ FiltersLocation) =>
    \A j \in 1..Len(resp.body) : resp.body[j].location = resp.args["location"]

\* C5: a response for field-1 while the collection holds a reading of the
\* requested sensor, inside the window, at another location.
C5_Witness ==
  /\ Series200
  /\ FiltersLocation
  /\ resp.body # <<>>
  /\ \E i \in 1..Len(store) :
       /\ store[i].sensor = resp.args["sensor"]
       /\ store[i].timestamp >= resp.now - ReqHours
       /\ store[i].location # resp.args["location"]

\* s is strictly ascending: sorted and without duplicates.
Ascending(s) == \A i \in 1..(Len(s) - 1) : StrLess(s[i], s[i + 1])

\* C6: a successful listing holds the collection's sensors, and its
\* locations other than null and the empty string, each once and in
\* ascending order (two empty lists for the empty collection).
C6_DistinctSorted ==
  (resp.op = "sensors" /\ resp.status = 200) =>
    /\ Ascending(resp.body.sensors)
    /\ Ascending(resp.body.locations)
    /\ Range(resp.body.sensors) = { store[i].sensor : i \in 1..Len(store) }
    /\ Range(resp.body.locations) =
         { store[i].location : i \in 1..Len(store) } \ { None, "" }
    /\ store = <<>> => resp.body = [sensors |-> <<>>, locations |-> <<>>]

\* C6: a listing of two sensors and two locations over a collection that
\* also holds an empty location, inserted in descending order.
C6_Witness ==
  /\ resp.op = "sensors" /\ resp.status = 200
  /\ Len(resp.body.sensors) = 2
  /\ Len(resp.body.locations) = 2
  /\ \E i \in 1..Len(store) : store[i].location = ""
  /\ StrLess(store[2].location, store[1].location)

\* C7 as stated: a read operation repeated with the same parameters, over
\* the same collection and at the same hour, gives the same result.
C7_Idempotent ==
  [][(/\ resp.op \in { "sensors", "summary", "timeseries" }
      /\ resp.status = 200
      /\ resp'.op = resp.op
      /\ resp'.args = resp.args
      /\ resp'.status = 200
      /\ store' = store
      /\ now' = now) => resp'.body = resp.body]_vars

C9_SensorAndWindow ==
  Series200 =>
    /\ \A j \in 1..Len(resp.body) :
         /\ resp.body[j].sensor = resp.args["sensor"]
         /\ resp.body[j].timestamp["$date"] >= resp.now - ReqHours
    /\ Cardinality(Eligible) < ReqLimit => Returns(Eligible)

\* C9: a response for the last hour that holds a reading exactly one hour
\* old, over a collection with an older reading of the sensor.
C9_Witness ==
  /\ Series200
  /\ "hours" \in DOMAIN resp.args
  /\ \E j \in 1..Len(resp.body) : resp.body[j].timestamp["$date"] = resp.now - ReqHours
  /\ \E i \in 1..Len(store) :
       /\ store[i].sensor = resp.args["sensor"]
       /\ store[i].timestamp < resp.now - ReqHours

\* C10: `stats_24h` holds one entry for every sensor with a reading of the
\* last 24 hours and none for any other sensor.
C10_StatsSensors ==
  Summary200 =>
    \A s \in { store[i].sensor : i \in 1..Len(store) }
             \cup { resp.body.stats_24h[k].sensor : k \in DOMAIN resp.body.stats_24h } :
      Cardinality({ k \in DOMAIN resp.body.stats_24h : resp.body.stats_24h[k].sensor = s })
        = IF Recent(s) # {} THEN 1 ELSE 0

\* C10: a summary over a collection with a sensor whose only reading is 25
\* hours old and a sensor with two fresh readings, which alone is reported.
C10_Witness ==
  /\ Summary200
  /\ \E i \in 1..Len(store) : Recent(store[i].sensor) = {}
  /\ \E i \in 1..Len(store) : Cardinality(Recent(store[i].sensor)) = 2
  /\ Cardinality(DOMAIN resp.body.stats_24h) = 1

\* The readings of the requested sensor and period, at any location or none.
AnyLocation ==
  { i \in 1..Len(store) :
      /\ store[i].sensor = resp.args["sensor"]
      /\ store[i].timestamp >= resp.now - ReqHours }

\* C11: a successful response to a series request that sends no `location`
\* is drawn from the readings of the sensor and the period at every
\* location and at none: all of them when they are at most `limit`, and
\* otherwise `limit` of them chosen by timestamp alone.
C11_NoLocationNoFilter ==
  (Series200 /\ "location" \notin DOMAIN resp.args) =>
    \E S \in SUBSET AnyLocation :
      /\ Cardinality(S) =
           IF Cardinality(AnyLocation) > ReqLimit THEN ReqLimit
           ELSE Cardinality(AnyLocation)
      /\ Returns(S)
      /\ \A i \in AnyLocation \ S : \A j \in S : store[i].timestamp <= store[j].timestamp

\* C11: a response to a request without `location` that holds a reading
\* without location beside readings of two different locations.
C11_Witness ==
  /\ Series200
  /\ "location" \notin DOMAIN resp.args
  /\ \E i, j, k \in DOMAIN resp.body :
       /\ resp.body[i].location = None
       /\ resp.body[j].location = "field-1"
       /\ resp.body[k].location = NoneSentinel

\* The answered request is of a read endpoint.
ReadAnswered == resp.op \in ReadOps

\* C12: a read call one of whose queries on the reading collection failed is
\* answered by the service error (500 with an error message only), never
\* by a success; a successful response is empty exactly when the collection
\* holds no data for it: the listing over a collection without readings,
\* `latest` over a collection without readings, `stats_24h` without a
\* reading of the last 24 hours, the series without a requested reading.
C12_EmptyIsNotFailure ==
  ReadAnswered =>
    /\ resp.failed => (resp.status = 500 /\ DOMAIN resp.body = { "error" })
    /\ resp.status = 200 => ~resp.failed
    /\ (resp.op = "sensors" /\ resp.status = 200 /\ store = <<>>) =>
         (resp.body.sensors = <<>> /\ resp.body.locations = <<>>)
    /\ Summary200 =>
         /\ DOMAIN resp.body.latest = {} <=> resp.latestLen = 0
         /\ DOMAIN resp.body.stats_24h = {} <=>
              \A i \in 1..Len(store) : store[i].timestamp < resp.now - StatsWindowHours
    /\ Series200 => (resp.body = <<>> <=> Eligible = {})

\* C12: a failed series query over a collection without readings, where
\* "no data" and "failure" would otherwise look alike.
C12_Witness ==
  /\ resp.op = "timeseries"
  /\ resp.failed
  /\ resp.status = 500
  /\ store = <<>>

\* The queries a read handler makes on the reading collection.
NumQueries(op) == IF op = "timeseries" THEN 1 ELSE 2

\* The accesses to the reading collection made for the answered request.
ReadingAccesses == SelectSeq(resp.accessed, LAMBDA c : c = "readings")

\* C13: a read call one of whose queries failed is answered by an error
\* alone, with none of the data computed before the failure (no `latest`
\* when the statistics query fails), and no query is made again; a
\* successful call made every one of its queries once and answers with
\* all of its views.
C13_AllOrNothing ==
  ReadAnswered =>
    /\ resp.failed =>
         /\ resp.status = 500
         /\ DOMAIN resp.body = { "error" }
         /\ Len(ReadingAccesses) \in 1..NumQueries(resp.op)
    /\ resp.status = 200 =>
         /\ Len(ReadingAccesses) = NumQueries(resp.op)
         /\ resp.op = "summary" => DOMAIN resp.body = { "latest", "stats_24h" }
         /\ resp.op = "sensors" => DOMAIN resp.body = { "sensors", "locations" }

\* C13: the statistics query of a summary fails after the first query has
\* computed a `latest` view of at least one reading.
C13_Witness ==
  /\ resp.op = "summary"
  /\ resp.failed
  /\ Len(ReadingAccesses) = 2
  /\ resp.latestLen > 0

\* The step is a read handler's: it moves the summary call on or delivers
\* the response of a read endpoint.
ReadStep == pc' # pc \/ resp'.op \in ReadOps

\* C14: no step of the listing, the summary or the series, whatever the
\* parameters and whether it succeeds or fails, changes the reading
\* collection or the user collection.
C14_ReadsChangeNothing ==
  [][ReadStep => (store' = store /\ users' = users)]_vars

\* C14: a read call has failed over collections that hold documents.
C14_Witness ==
  /\ ReadAnswered
  /\ resp.failed
  /\ store # <<>>
  /\ users # <<>>

\* C15: two successful summary calls that read the same collection report
\* the same `latest` view: among readings of one group that share the
\* greatest timestamp, the same one is chosen each time.
C15_LatestDeterministic ==
  [][(/\ Summary200
      /\ resp'.op = "summary" /\ resp'.status = 200
      /\ store' = store
      /\ resp'.latestLen = resp.latestLen)
       => resp'.body.latest = resp.body.latest]_vars

\* C16: no two documents of the user collection share a username or an
\* email, in any state, register() calls that run side by side included.
C16_UniqueUsers ==
  \A i, j \in 1..Len(users) :
    i # j => (users[i].username # users[j].username /\ users[i].email # users[j].email)

\* The _id values of the user collection.
Registered == { users[i]._id : i \in 1..Len(users) }

\* C17: a caller without a session is answered by the listing, the
\* summary, the series and the dashboard with the redirect to the login
\* view alone, without any store access and without a body; a response of
\* theirs that carries data or that follows a read of the reading
\* collection goes to a caller whose session names a registered user.
C17_OnlyAuthenticated ==
  resp.op \in ReadOps \cup { "dashboard" } =>
    /\ session = None =>
         /\ resp.status = 302
         /\ resp.accessed = <<>>
         /\ "body" \notin DOMAIN resp
    /\ (resp.status # 302 \/ "readings" \in Range(resp.accessed)) =>
         session \in Registered

\* C17: a caller that has logged out asks for the series of a sensor that
\* has readings, and is redirected.
C17_Witness ==
  /\ session = None
  /\ resp.op = "timeseries"
  /\ "sensor" \in DOMAIN resp.args
  /\ resp.status = 302
  /\ \E i \in 1..Len(store) : store[i].sensor = resp.args["sensor"]

\* C18: in every successful summary response, the readings of a sensor
\* that have no location have exactly one `latest` entry, which has no
\* location either, and each location that readings of the sensor do
\* carry, whatever its value, has an entry of its own beside it.
C18_NoLocationOwnGroup ==
  Summary200 =>
    LET docs == LatestDocs
        view == resp.body.latest
    IN  \A i \in 1..Len(docs) :
          docs[i].location = None =>
            /\ Cardinality(EntriesOf(view, docs[i].sensor, None)) = 1
            /\ \A j \in 1..Len(docs) :
                 (docs[j].sensor = docs[i].sensor /\ docs[j].location # None) =>
                   EntriesOf(view, docs[j].sensor, docs[j].location) # {}

\* C19: every summary call in flight eventually completes with a response,
\* also when the store never answers its query.
C19_Completes == (pc # "idle") ~> (pc = "idle")

\* C20: of two successive successful summary calls, with readings written
\* in between, the later reports every (sensor, location) group the earlier
\* reported, with a timestamp that is not less.
C20_LatestMonotone ==
  [][(Summary200 /\ resp'.op = "summary" /\ resp'.status = 200) =>
       \A k \in DOMAIN resp.body.latest :
         \E m \in DOMAIN resp'.body.latest :
           /\ resp'.body.latest[m].sensor = resp.body.latest[k].sensor
           /\ resp'.body.latest[m].location = resp.body.latest[k].location
           /\ resp'.body.latest[m].timestamp["$date"] >=
                resp.body.latest[k].timestamp["$date"]]_vars

\* The sensors of the entries of a view.
SensorsOf(view) == { view[k].sensor : k \in DOMAIN view }

\* C21 as stated: in every successful summary response, every sensor of
\* `stats_24h` is the sensor of an entry of `latest`, readings written
\* between the call's two queries included.
C21_StatsSensorsInLatest ==
  Summary200 => SensorsOf(resp.body.stats_24h) \subseteq SensorsOf(resp.body.latest)

\* C21, amended: in every successful summary response, every sensor of
\* `stats_24h` that had a reading in the collection when the call's first
\* query ran is the sensor of an entry of `latest`; so is every sensor of
\* `stats_24h` when nothing was written between the two queries.  A sensor
\* whose first reading was written in between is in `stats_24h` alone.
C21_StatsSensorsKnownInLatest ==
  Summary200 =>
    /\ \A s \in SensorsOf(resp.body.stats_24h) :
         (\E i \in 1..resp.latestLen : store[i].sensor = s) =>
           s \in SensorsOf(resp.body.latest)
    /\ resp.latestLen = resp.statsLen =>
         SensorsOf(resp.body.stats_24h) \subseteq SensorsOf(resp.body.latest)
    /\ \A s \in SensorsOf(resp.body.stats_24h) \ SensorsOf(resp.body.latest) :
         \E i \in (resp.latestLen + 1)..resp.statsLen : store[i].sensor = s

\* C21: a reading of a sensor already in the collection is written between
\* the two queries, and the sensor is in both views.
C21_Witness ==
  /\ Summary200
  /\ 0 < resp.latestLen
  /\ resp.latestLen < resp.statsLen
  /\ \E s \in SensorsOf(resp.body.stats_24h) :
       /\ s \in SensorsOf(resp.body.latest)
       /\ \E i \in (resp.latestLen + 1)..resp.statsLen : store[i].sensor = s

\* C22: a login with the username of a registered user and the password
\* of that user, answered without a store failure, succeeds, whatever
\* other users there are.
C22_OwnUsernameLogsIn ==
  (/\ resp.op = "login"
   /\ resp.status # 500
   /\ \E i \in 1..Len(users) :
        /\ users[i].username = Strip(resp.args.username)
        /\ checkpw(resp.args.password, users[i].password))
    => resp.status = 200

\* The stored users the identifier and the password of a login form match.
LoginMatches(form) ==
  { i \in 1..Len(users) :
      /\ users[i].username = Strip(form.username) \/ users[i].email = Strip(form.username)
      /\ users[i].password = Hash(form.password) }

\* C23: a step that answers a login either answers 200 and sets the session
\* to a stored user whose username or email is the identifier sent and
\* whose hash is that of the password sent, or answers an error (400, 401
\* or 500) and leaves the session as it was; no login step changes the
\* user collection.
C23_LoginOnlyOnMatch ==
  [][(resp'.op = "login" /\ (resp.op # "login" \/ resp'.args # resp.args
                                \/ resp'.status # resp.status \/ session' # session)) =>
       /\ users' = users
       /\ IF resp'.status = 200
          THEN \E i \in LoginMatches(resp'.args) : session' = users[i]._id
          ELSE resp'.status \in { 400, 401, 500 } /\ session' = session]_vars

\* C23: a login with the identifier of a stored user and a wrong password,
\* by a caller without a session, that is answered 401 and leaves the
\* caller without one.
C23_Witness ==
  /\ resp.op = "login"
  /\ resp.status = 401
  /\ session = None
  /\ LoginMatches(resp.args) = {}
  /\ \E i \in 1..Len(users) : users[i].username = Strip(resp.args.username)

\* The form has a blank username, email or password, or a password of fewer
\* than 6 characters.
Invalid(form) ==
  \/ Strip(form.username) = ""
  \/ Strip(form.email) = ""
  \/ form.password = ""
  \/ StrLen(form.password) < 6

\* A stored user has the form's username or its email.
Taken(form) ==
  \E i \in 1..Len(users) :
    \/ users[i].username = Strip(form.username)
    \/ users[i].email = Strip(form.email)

\* C24: a register() call gets past its checks only with a form that has
\* no blank field, a password of at least 6 characters and a username and
\* an email no stored user has; the step that answers a registration with
\* an error answers an invalid form 400 and a taken one 400 (500 if the
\* lookup failed), and changes neither the user collection nor the session;
\* the step that answers 200 appends exactly one user, that of the form,
\* with the hash of its password, and sets the session to that user.
C24_RegisterOutcome ==
  [][/\ \A slot \in Slots :
          (~Pending(slot) /\ "form" \in DOMAIN reg'[slot]) =>
            /\ ~Invalid(reg'[slot].form)
            /\ ~Taken(reg'[slot].form)
            /\ users' = users /\ session' = session
     /\ (resp'.op = "register" /\ resp'.status # 200
           /\ \A slot \in Slots : Pending(slot) <=> "form" \in DOMAIN reg'[slot]) =>
          /\ users' = users
          /\ session' = session
          /\ resp'.status \in { 400, 500 }
          /\ Invalid(resp'.args) => resp'.status = 400
     /\ (resp'.op = "register" /\ resp'.status = 200 /\ users' # users) =>
          /\ Len(users') = Len(users) + 1
          /\ SubSeq(users', 1, Len(users)) = users
          /\ users'[Len(users')].username = Strip(resp'.args.username)
          /\ users'[Len(users')].email = Strip(resp'.args.email)
          /\ users'[Len(users')].password = Hash(resp'.args.password)
          /\ \A i \in 1..Len(users) : users[i]._id # users'[Len(users')]._id
          /\ session' = users'[Len(users')]._id
     /\ (resp'.op # "register" \/ resp'.status # 200) => Len(users') = Len(users)
    ]_vars

\* C24: a caller without a session posts a valid form whose email a stored
\* user has; it is answered 400 and still has no session.
C24_Witness ==
  /\ resp.op = "register"
  /\ resp.status = 400
  /\ ~Invalid(resp.args)
  /\ Taken(resp.args)
  /\ session = None

\* The strings of the model's requests that are not integers.
NonIntegers == { "soon", "1.5" }

\* The answered series request sends `hours` or `limit` with a value that
\* is not an integer.
NonIntegerSent ==
  \E k \in { "hours", "limit" } : k \in DOMAIN resp.args /\ resp.args[k] \in NonIntegers

\* C25: a series request whose `hours` or `limit` is not an integer is
\* never answered 200 and never reads the reading collection; once through
\* the login gate and with a sensor, it is answered by the server error
\* (500) that the ValueError of int() produces.
C25_NonIntegerRejected ==
  (resp.op = "timeseries" /\ NonIntegerSent) =>
    /\ resp.status \in { 302, 400, 500 }
    /\ "readings" \notin Range(resp.accessed)
    /\ ~resp.failed
    /\ (resp.status # 302 /\ ~NoSensorSent) => resp.status = 500

\* C25: `limit=1.5` for a sensor that has a reading within the period is
\* answered 500.
C25_Witness ==
  /\ resp.op = "timeseries"
  /\ "limit" \in DOMAIN resp.args
  /\ resp.args["limit"] = "1.5"
  /\ resp.status = 500
  /\ \E i \in 1..Len(store) :
       store[i].sensor = resp.args["sensor"] /\ store[i].timestamp >= now - DefaultHours

====
